---- MODULE Spec2Model ----
(***************************************************************************)
(* Model of test-server.py: a script that changes into ./dist, prints a    *)
(* start-up listing, binds socketserver.TCPServer on port 8080 and serves  *)
(* the directory through MyHTTPRequestHandler, a SimpleHTTPRequestHandler  *)
(* whose end_headers adds "Access-Control-Allow-Origin: *".                *)
(*                                                                         *)
(* The handler operators follow the methods the script inherits            *)
(* (handle_one_request, parse_request, send_error, send_head, ...) and the *)
(* one it overrides (end_headers).  The server actions follow the module   *)
(* level statements and serve_forever's accept / handle cycle.             *)
(***************************************************************************)
EXTENDS Integers, Sequences, FiniteSets, TLC

VARIABLES
    fs,          \* contents of dist: path (sequence of names) -> node; read-only
    hasDist,     \* hasDist[i]: does ./dist exist where instance i was launched
    pc,          \* pc[i]: the statement instance i is about to execute
    cwd,         \* cwd[i]: "launch" or "dist"
    out,         \* out[i]: the lines printed on stdout so far
    exitStatus,  \* exitStatus[i]: process exit status, -1 while it runs
    exitAt,      \* exitAt[i]: the statement the uncaught exception came from
    raised,      \* raised[i]: the uncaught exception that ended the process
    portOwner,   \* instance whose listening socket is bound to PORT, 0 if none
    backlog,     \* connections completed by the kernel, not yet accepted
    cur,         \* cur[i]: connection instance i's handler is working on, 0 if none
    conn         \* conn[c]: one client connection slot

vars == <<fs, hasDist, pc, cwd, out, exitStatus, exitAt, raised,
          portOwner, backlog, cur, conn>>

---------------------------------------------------------------------------
(* Bounds and program constants *)

\* Number of client connections that can be open at the same time.
MaxConn == 2

PORT == 8080

Inst == {1, 2}
Conns == 1 .. MaxConn

---------------------------------------------------------------------------
(* The directory tree under dist *)

File(content, mtime, readable) ==
    [kind |-> "file", content |-> content, mtime |-> mtime, readable |-> readable]

Dir(listable) ==
    [kind |-> "dir", content |-> <<>>, mtime |-> 0, readable |-> listable]

\* The scenario of the specification: one release binary and one other file.
ScenarioFS ==
    (<<"bcrdf-v1.bin">> :> File(<<7, 8>>, 1, TRUE)) @@
    (<<"notes.txt">> :> File(<<5>>, 1, TRUE))

\* A tree with every kind of node a request can resolve to.
FullFS ==
    ScenarioFS @@
    (<<"secret">> :> File(<<9>>, 1, FALSE)) @@
    (<<"bcrdf">> :> File(<<4>>, 1, TRUE)) @@
    (<<"xbcrdf-old">> :> File(<<3>>, 1, TRUE)) @@
    (<<"bcrdf-docs">> :> Dir(TRUE)) @@
    (<<"sub">> :> Dir(TRUE)) @@
    (<<"sub", "inner.txt">> :> File(<<6>>, 1, TRUE)) @@
    (<<"withidx">> :> Dir(TRUE)) @@
    (<<"withidx", "index.html">> :> File(<<1, 2, 3>>, 1, TRUE)) @@
    (<<"locked">> :> Dir(FALSE))

EmptyFS == [p \in {} |-> File(<<>>, 0, TRUE)]

FileSystems == {FullFS, ScenarioFS, EmptyFS}

Exists(tree, p) == p = <<>> \/ p \in DOMAIN tree
IsDir(tree, p) == p = <<>> \/ (p \in DOMAIN tree /\ tree[p].kind = "dir")
IsFile(tree, p) == p \in DOMAIN tree /\ tree[p].kind = "file"

\* os.listdir(p): the names directly under p.
ListDir(tree, p) ==
    {q[Len(q)] : q \in {r \in DOMAIN tree :
                          Len(r) = Len(p) + 1 /\ SubSeq(r, 1, Len(p)) = p}}

---------------------------------------------------------------------------
(* Strings as the code reads them *)

\* The characters of each name the start-up listing can meet.
Chars(name) ==
    CASE name = "bcrdf-v1.bin" ->
            <<"b", "c", "r", "d", "f", "-", "v", "1", ".", "b", "i", "n">>
      [] name = "bcrdf-docs" ->
            <<"b", "c", "r", "d", "f", "-", "d", "o", "c", "s">>
      [] name = "bcrdf" -> <<"b", "c", "r", "d", "f">>
      [] name = "xbcrdf-old" ->
            <<"x", "b", "c", "r", "d", "f", "-", "o", "l", "d">>
      [] name = "notes.txt" -> <<"n", "o", "t", "e", "s", ".", "t", "x", "t">>
      [] name = "secret" -> <<"s", "e", "c", "r", "e", "t">>
      [] name = "sub" -> <<"s", "u", "b">>
      [] name = "withidx" -> <<"w", "i", "t", "h", "i", "d", "x">>
      [] name = "locked" -> <<"l", "o", "c", "k", "e", "d">>
      [] OTHER -> <<>>

Prefix == <<"b", "c", "r", "d", "f", "-">>

\* str.startswith
StartsWith_Contains(s, p) ==
    \E k \in 0 .. Len(s) : k + Len(p) <= Len(s) /\ SubSeq(s, k + 1, k + Len(p)) = p

StartsWith(s, p) == Len(s) >= Len(p) /\ SubSeq(s, 1, Len(p)) = p

\* urlsplit + unquote + split("/") of a request target, as translate_path does:
\* the path below the serving root and whether the target ends with "/".
TranslatePath(target) ==
    CASE target = "/" -> [segs |-> <<>>, slash |-> TRUE]
      [] target = "/bcrdf-v1.bin" -> [segs |-> <<"bcrdf-v1.bin">>, slash |-> FALSE]
      [] target = "/notes.txt" -> [segs |-> <<"notes.txt">>, slash |-> FALSE]
      [] target = "/notes.txt/" -> [segs |-> <<"notes.txt">>, slash |-> TRUE]
      [] target = "/secret" -> [segs |-> <<"secret">>, slash |-> FALSE]
      [] target = "/missing.bin" -> [segs |-> <<"missing.bin">>, slash |-> FALSE]
      [] target = "/sub" -> [segs |-> <<"sub">>, slash |-> FALSE]
      [] target = "/sub/" -> [segs |-> <<"sub">>, slash |-> TRUE]
      [] target = "/sub/inner.txt" -> [segs |-> <<"sub", "inner.txt">>, slash |-> FALSE]
      [] target = "/withidx" -> [segs |-> <<"withidx">>, slash |-> FALSE]
      [] target = "/withidx/" -> [segs |-> <<"withidx">>, slash |-> TRUE]
      [] target = "/locked/" -> [segs |-> <<"locked">>, slash |-> TRUE]
      [] OTHER -> [segs |-> <<"missing.bin">>, slash |-> FALSE]

\* guess_type: the MIME type from the extension of the last path component.
GuessType(segs) ==
    LET leaf == IF segs = <<>> THEN "" ELSE segs[Len(segs)]
    IN CASE leaf \in {"notes.txt", "inner.txt"} -> "text/plain"
         [] leaf = "index.html" -> "text/html"
         [] OTHER -> "application/octet-stream"

\* The version word of a request line: is it "HTTP/<int>.<int>", and which.
ValidVersion(word) == word \in {"HTTP/1.0", "HTTP/1.1", "HTTP/2.0"}

VersionNumber(word) ==
    CASE word = "HTTP/1.0" -> <<1, 0>>
      [] word = "HTTP/1.1" -> <<1, 1>>
      [] word = "HTTP/2.0" -> <<2, 0>>
      [] OTHER -> <<0, 9>>

\* Python's tuple comparison a >= b on pairs.
PairGE(a, b) == a[1] > b[1] \/ (a[1] = b[1] /\ a[2] >= b[2])

\* BaseHTTPRequestHandler.protocol_version, which the script leaves at its default.
ProtocolVersion == <<1, 0>>

---------------------------------------------------------------------------
(* What the handler writes to the connection (wfile) *)

Item(t, k, v, n, data, names) ==
    [t |-> t, k |-> k, v |-> v, n |-> n, data |-> data, names |-> names]

\* "HTTP/1.0 <code> <message>\r\n"
StatusLine(code, message) == Item("status", "HTTP/1.0", message, code, <<>>, {})
\* "<keyword>: <value>\r\n"; n carries a numeric value (Content-Length)
HeaderLine(k, v, n) == Item("header", k, v, n, <<>>, {})
\* the blank line ending the headers
BlankLine == Item("blank", "", "", 0, <<>>, {})
\* a run of body bytes; names is the set of entries of a listing page
BodyBytes(kind, data, names) == Item("body", kind, "", 0, data, names)

\* The HTML page send_error builds: abstracted to one unit naming the code.
ErrorPage(code) == <<code>>

\* The HTML page list_directory builds: abstracted to one unit for the frame
\* and one per entry.
ListingPage(names) == [j \in 1 .. Cardinality(names) + 1 |-> 0]

---------------------------------------------------------------------------
(* Requests a client can send *)

NoIMS == [present |-> FALSE, valid |-> FALSE, time |-> 0]
IMS(time) == [present |-> TRUE, valid |-> TRUE, time |-> time]
BadIMS == [present |-> TRUE, valid |-> FALSE, time |-> 0]

\* kind: "line" (a request line of at most 65536 bytes was read), "toolong"
\* (a longer one), "eof" (the client closed before sending anything).
\* words: the request line split on white space.
Req(kind, words, ims, inm, connection) ==
    [kind |-> kind, words |-> words, ims |-> ims, inm |-> inm,
     connection |-> connection]

Plain(words) == Req("line", words, NoIMS, FALSE, "")

NoReq == Req("none", <<>>, NoIMS, FALSE, "")

Targets ==
    {"/", "/bcrdf-v1.bin", "/notes.txt/", "/secret", "/missing.bin", "/sub",
     "/sub/", "/withidx/", "/locked/"}

Requests ==
    {Plain(<<"GET", t, "HTTP/1.0">>) : t \in Targets}
    \cup {Req("line", <<"GET", "/bcrdf-v1.bin", "HTTP/1.0">>, m[1], m[2], "") :
            m \in {<<IMS(0), FALSE>>, <<IMS(1), FALSE>>, <<IMS(2), FALSE>>,
                   <<IMS(2), TRUE>>, <<BadIMS, FALSE>>}}
    \cup {Req("line", <<"GET", "/notes.txt", "HTTP/1.1">>, NoIMS, FALSE, "keep-alive")}
    \cup {Plain(<<"GET", t>>) : t \in {"/bcrdf-v1.bin", "/missing.bin", "/sub/"}}
    \cup {Plain(<<"HEAD", t, "HTTP/1.0">>) : t \in {"/bcrdf-v1.bin", "/missing.bin"}}
    \cup {Plain(<<"POST", "/notes.txt", "HTTP/1.0">>),
          Plain(<<"POST", "/notes.txt">>),
          Plain(<<"GET">>),
          Plain(<<>>),
          Plain(<<"GET", "/notes.txt", "FOO">>),
          Plain(<<"GET", "/notes.txt", "HTTP/2.0">>),
          Plain(<<"GET", "/notes", ".txt", "HTTP/1.0">>),
          Req("toolong", <<>>, NoIMS, FALSE, ""),
          Req("eof", <<>>, NoIMS, FALSE, "")}

---------------------------------------------------------------------------
(* The request handler: BaseHTTPRequestHandler / SimpleHTTPRequestHandler   *)
(* methods as operators on the handler object h                            *)

\* No file object.
NoFileObj == [open |-> FALSE, kind |-> "", data |-> <<>>, names |-> {}]
FileObj(kind, data, names) ==
    [open |-> TRUE, kind |-> kind, data |-> data, names |-> names]

\* The handler object as StreamRequestHandler.setup leaves it.
NewHandler ==
    [request_version |-> "", command |-> "", path |-> "",
     close_connection |-> TRUE, headers_buffer |-> <<>>, wfile |-> <<>>,
     exception |-> ""]

send_response_only(h, code, message) ==
    IF h.request_version # "HTTP/0.9"
    THEN [h EXCEPT !.headers_buffer = Append(@, StatusLine(code, message))]
    ELSE h

send_header(h, keyword, value, n) ==
    LET h1 == IF h.request_version # "HTTP/0.9"
              THEN [h EXCEPT !.headers_buffer = Append(@, HeaderLine(keyword, value, n))]
              ELSE h
    IN IF keyword = "Connection" /\ value = "close"
       THEN [h1 EXCEPT !.close_connection = TRUE]
       ELSE IF keyword = "Connection" /\ value = "keep-alive"
       THEN [h1 EXCEPT !.close_connection = FALSE]
       ELSE h1

\* BaseHTTPRequestHandler.end_headers followed by flush_headers.
BaseEndHeaders(h) ==
    IF h.request_version # "HTTP/0.9"
    THEN [h EXCEPT !.wfile = @ \o h.headers_buffer \o <<BlankLine>>,
                   !.headers_buffer = <<>>]
    ELSE h

end_headers_NoCors(h) == BaseEndHeaders(h)

\* MyHTTPRequestHandler.end_headers
end_headers(h) ==
    BaseEndHeaders(send_header(h, "Access-Control-Allow-Origin", "*", 0))

send_response(h, code, message) ==
    send_header(send_header(send_response_only(h, code, message),
                            "Server", "SimpleHTTP", 0),
                "Date", "now", 0)

send_error(h, code, message) ==
    LET h1 == send_header(send_response(h, code, message), "Connection", "close", 0)
        hasBody == code >= 200 /\ code \notin {204, 205, 304}
        body == ErrorPage(code)
        h2 == IF hasBody
              THEN send_header(send_header(h1, "Content-Type", "text/html;charset=utf-8", 0),
                               "Content-Length", "", Len(body))
              ELSE h1
        h3 == end_headers(h2)
    IN IF h.command # "HEAD" /\ hasBody
       THEN [h3 EXCEPT !.wfile = Append(@, BodyBytes("error", body, {}))]
       ELSE h3

\* version_number >= (1, 1) and self.protocol_version >= "HTTP/1.1"
Persistent(version) ==
    PairGE(VersionNumber(version), <<1, 1>>) /\ PairGE(ProtocolVersion, <<1, 1>>)

\* The Connection request header, read after the request line was accepted.
ConnectionDirective(h, conntype) ==
    IF conntype = "close" THEN [h EXCEPT !.close_connection = TRUE]
    ELSE IF conntype = "keep-alive" /\ PairGE(ProtocolVersion, <<1, 1>>)
    THEN [h EXCEPT !.close_connection = FALSE]
    ELSE h

\* parse_request: [ok, h]; on failure the error response has been written.
\* h1 is the handler after the first three assignments, hv after the version
\* word of a line of three or more words was examined.
parse_request(h0, req) ==
    LET words == req.words
        n == Len(words)
        version == words[n]
        h1 == [h0 EXCEPT !.command = "", !.request_version = "HTTP/0.9",
                         !.close_connection = TRUE]
        hv == [h1 EXCEPT !.close_connection = IF Persistent(version) THEN FALSE ELSE @]
    IN IF n = 0 THEN [ok |-> FALSE, h |-> h1]
       ELSE IF n >= 3 /\ ~ValidVersion(version)
       THEN [ok |-> FALSE, h |-> send_error(h1, 400, "Bad request version")]
       ELSE IF n >= 3 /\ PairGE(VersionNumber(version), <<2, 0>>)
       THEN [ok |-> FALSE, h |-> send_error(hv, 505, "Invalid HTTP version")]
       ELSE IF n > 3
       THEN [ok |-> FALSE,
             h |-> send_error([hv EXCEPT !.request_version = version],
                              400, "Bad request syntax")]
       ELSE IF n < 2
       THEN [ok |-> FALSE, h |-> send_error(h1, 400, "Bad request syntax")]
       ELSE IF n = 2 /\ words[1] # "GET"
       THEN [ok |-> FALSE, h |-> send_error(h1, 400, "Bad HTTP/0.9 request type")]
       ELSE IF n = 2
       THEN [ok |-> TRUE,
             h |-> ConnectionDirective(
                     [h1 EXCEPT !.command = words[1], !.path = words[2]],
                     req.connection)]
       ELSE [ok |-> TRUE,
             h |-> ConnectionDirective(
                     [hv EXCEPT !.request_version = version,
                                !.command = words[1], !.path = words[2]],
                     req.connection)]

\* os.listdir(path) succeeds: the serving root is the process's own directory.
Listable(tree, segs) == segs = <<>> \/ tree[segs].readable

\* list_directory: [h, f]
list_directory(h, tree, segs) ==
    IF ~Listable(tree, segs)
    THEN [h |-> send_error(h, 404, "No permission to list directory"), f |-> NoFileObj]
    ELSE LET names == ListDir(tree, segs)
             page == ListingPage(names)
             h1 == send_response(h, 200, "OK")
             h2 == send_header(h1, "Content-type", "text/html; charset=utf-8", 0)
             h3 == send_header(h2, "Content-Length", "", Len(page))
         IN [h |-> end_headers(h3), f |-> FileObj("listing", page, names)]

\* The first of index.html, index.htm that is a regular file in the directory.
IndexOf(tree, segs) ==
    IF IsFile(tree, Append(segs, "index.html")) THEN Append(segs, "index.html")
    ELSE IF IsFile(tree, Append(segs, "index.htm")) THEN Append(segs, "index.htm")
    ELSE <<>>

\* open(path, 'rb') succeeds.
CanOpen(tree, segs) == Exists(tree, segs) /\ tree[segs].readable

ServeFile_IgnoresNoneMatch(h, req, tree, segs, endsWithSlash) ==
    IF endsWithSlash
    THEN [h |-> send_error(h, 404, "File not found"), f |-> NoFileObj]
    ELSE IF ~CanOpen(tree, segs)
    THEN [h |-> send_error(h, 404, "File not found"), f |-> NoFileObj]
    ELSE IF req.ims.present /\ req.ims.valid /\ tree[segs].mtime <= req.ims.time
    THEN [h |-> end_headers(send_response(h, 304, "Not Modified")), f |-> NoFileObj]
    ELSE LET h1 == send_response(h, 200, "OK")
             h2 == send_header(h1, "Content-type", GuessType(segs), 0)
             h3 == send_header(h2, "Content-Length", "", Len(tree[segs].content))
             h4 == send_header(h3, "Last-Modified", "", tree[segs].mtime)
         IN [h |-> end_headers(h4), f |-> FileObj("file", tree[segs].content, {})]

ServeFile_Open500(h, req, tree, segs, endsWithSlash) ==
    IF endsWithSlash
    THEN [h |-> send_error(h, 404, "File not found"), f |-> NoFileObj]
    ELSE IF ~Exists(tree, segs)
    THEN [h |-> send_error(h, 404, "File not found"), f |-> NoFileObj]
    ELSE IF ~tree[segs].readable
    THEN [h |-> send_error(h, 500, "Internal Server Error"), f |-> NoFileObj]
    ELSE IF req.ims.present /\ ~req.inm /\ req.ims.valid
            /\ tree[segs].mtime <= req.ims.time
    THEN [h |-> end_headers(send_response(h, 304, "Not Modified")), f |-> NoFileObj]
    ELSE LET h1 == send_response(h, 200, "OK")
             h2 == send_header(h1, "Content-type", GuessType(segs), 0)
             h3 == send_header(h2, "Content-Length", "", Len(tree[segs].content))
             h4 == send_header(h3, "Last-Modified", "", tree[segs].mtime)
         IN [h |-> end_headers(h4), f |-> FileObj("file", tree[segs].content, {})]

\* The part of send_head after the directory test: [h, f].
\* endsWithSlash is path.endswith("/").
ServeFile(h, req, tree, segs, endsWithSlash) ==
    IF endsWithSlash
    THEN [h |-> send_error(h, 404, "File not found"), f |-> NoFileObj]
    ELSE IF ~CanOpen(tree, segs)
    THEN [h |-> send_error(h, 404, "File not found"), f |-> NoFileObj]
    ELSE IF req.ims.present /\ ~req.inm /\ req.ims.valid
            /\ tree[segs].mtime <= req.ims.time
    THEN [h |-> end_headers(send_response(h, 304, "Not Modified")), f |-> NoFileObj]
    ELSE LET h1 == send_response(h, 200, "OK")
             h2 == send_header(h1, "Content-type", GuessType(segs), 0)
             h3 == send_header(h2, "Content-Length", "", Len(tree[segs].content))
             h4 == send_header(h3, "Last-Modified", "", tree[segs].mtime)
         IN [h |-> end_headers(h4), f |-> FileObj("file", tree[segs].content, {})]

send_head_NoRedirect(h, req, tree) ==
    LET p == TranslatePath(h.path)
    IN IF IsDir(tree, p.segs)
       THEN IF IndexOf(tree, p.segs) # <<>>
            THEN ServeFile(h, req, tree, IndexOf(tree, p.segs), FALSE)
            ELSE list_directory(h, tree, p.segs)
       ELSE ServeFile(h, req, tree, p.segs, p.slash)

\* send_head: [h, f]
send_head(h, req, tree) ==
    LET p == TranslatePath(h.path)
    IN IF IsDir(tree, p.segs)
       THEN IF ~p.slash
            THEN LET h1 == send_response(h, 301, "Moved Permanently")
                     h2 == send_header(h1, "Location", "path/", 0)
                     h3 == send_header(h2, "Content-Length", "", 0)
                 IN [h |-> end_headers(h3), f |-> NoFileObj]
            ELSE IF IndexOf(tree, p.segs) # <<>>
            THEN ServeFile(h, req, tree, IndexOf(tree, p.segs), FALSE)
            ELSE list_directory(h, tree, p.segs)
       ELSE ServeFile(h, req, tree, p.segs, p.slash)

\* copyfile(f, wfile): every file here is shorter than one copy buffer, so a
\* read either returns the whole file or fails (ioerror) before any byte is
\* written.  r is send_head's result.
copyfile(r, ioerror) ==
    IF r.f.kind = "file" /\ ioerror
    THEN [r.h EXCEPT !.exception = "OSError"]
    ELSE IF Len(r.f.data) > 0
    THEN [r.h EXCEPT !.wfile = Append(@, BodyBytes(r.f.kind, r.f.data, r.f.names))]
    ELSE r.h

\* The tail of do_GET: copy the file send_head returned, if any.
CopyIfOpen(r, ioerror) == IF r.f.open THEN copyfile(r, ioerror) ELSE r.h

\* do_GET: send_head, then copyfile.
do_GET(h, req, tree, ioerror) == CopyIfOpen(send_head(h, req, tree), ioerror)

\* do_HEAD: send_head, then close the file.
do_HEAD(h, req, tree) == send_head(h, req, tree).h

\* The tail of handle_one_request: r is parse_request's result.
Dispatch(r, req, tree, ioerror) ==
    IF ~r.ok THEN r.h
    ELSE IF r.h.command = "GET" THEN do_GET(r.h, req, tree, ioerror)
    ELSE IF r.h.command = "HEAD" THEN do_HEAD(r.h, req, tree)
    ELSE send_error(r.h, 501, "Unsupported method")

\* handle_one_request: the handler object after one request.
handle_one_request(req, tree, ioerror) ==
    IF req.kind = "toolong"
    THEN send_error(NewHandler, 414, "Request-URI Too Long")
    ELSE IF req.kind = "eof"
    THEN [NewHandler EXCEPT !.close_connection = TRUE]
    ELSE Dispatch(parse_request(NewHandler, req), req, tree, ioerror)

---------------------------------------------------------------------------
(* The processes *)

SigintStatus_Clean == {0}

\* Exit status of a Python process ended by an uncaught KeyboardInterrupt:
\* 1, or death by SIGINT (128 + 2) where the interpreter re-raises the signal.
SigintStatus == {1, 130}

\* All orders in which os.listdir can return the names S.
Perms(S) ==
    {s \in [1 .. Cardinality(S) -> S] : \A a, b \in 1 .. Cardinality(S) :
                                           s[a] = s[b] => a = b}

\* st: "closed", "queued" (in the listen backlog), "accepted" (the handler
\* waits for the request) or "answered" (the handler has returned; the socket
\* is not yet closed).  sent: the client has sent its request, or closed its
\* end.  req, wfile, exception: the request the handler read, the bytes it
\* wrote to the socket and the exception it ended with.
NoConn == [st |-> "closed", sent |-> FALSE, req |-> NoReq, wfile |-> <<>>,
           exception |-> ""]

Init ==
    /\ fs \in FileSystems
    /\ hasDist \in [Inst -> BOOLEAN]
    /\ pc = [i \in Inst |-> "chdir"]
    /\ cwd = [i \in Inst |-> "launch"]
    /\ out = [i \in Inst |-> <<>>]
    /\ exitStatus = [i \in Inst |-> -1]
    /\ exitAt = [i \in Inst |-> ""]
    /\ raised = [i \in Inst |-> ""]
    /\ portOwner = 0
    /\ backlog = <<>>
    /\ cur = [i \in Inst |-> 0]
    /\ conn = [c \in Conns |-> NoConn]

\* An uncaught exception ends the process: traceback, exit status.
Die(i, exception, status) ==
    /\ pc' = [pc EXCEPT ![i] = "exited"]
    /\ exitStatus' = [exitStatus EXCEPT ![i] = status]
    /\ exitAt' = [exitAt EXCEPT ![i] = pc[i]]
    /\ raised' = [raised EXCEPT ![i] = exception]

Goto(i, next) ==
    /\ pc' = [pc EXCEPT ![i] = next]
    /\ UNCHANGED <<exitStatus, exitAt, raised>>

Chdir_Ignore(i) ==
    /\ pc[i] = "chdir"
    /\ cwd' = [cwd EXCEPT ![i] = IF hasDist[i] THEN "dist" ELSE @]
    /\ Goto(i, "banner")
    /\ UNCHANGED <<fs, hasDist, out, portOwner, backlog, cur, conn>>

\* line 10: os.chdir('dist')
Chdir(i) ==
    /\ pc[i] = "chdir"
    /\ IF hasDist[i]
       THEN /\ cwd' = [cwd EXCEPT ![i] = "dist"]
            /\ Goto(i, "banner")
       ELSE /\ Die(i, "FileNotFoundError", 1)
            /\ UNCHANGED cwd
    /\ UNCHANGED <<fs, hasDist, out, portOwner, backlog, cur, conn>>

\* lines 17-19: the banner, the working directory, the listing's heading
PrintBanner(i) ==
    /\ pc[i] = "banner"
    /\ out' = [out EXCEPT ![i] = @ \o <<"Test server starting on http://localhost:8080",
                                        "Serving files from: dist",
                                        "Available files:">>]
    /\ Goto(i, "listing")
    /\ UNCHANGED <<fs, hasDist, cwd, portOwner, backlog, cur, conn>>

\* lines 20-22: one line per entry of the directory whose name starts with bcrdf-
PrintListing(i) ==
    /\ pc[i] = "listing"
    /\ \E order \in Perms({name \in ListDir(fs, <<>>) : StartsWith(Chars(name), Prefix)}) :
          out' = [out EXCEPT ![i] = @ \o order]
    /\ Goto(i, "ready")
    /\ UNCHANGED <<fs, hasDist, cwd, portOwner, backlog, cur, conn>>

\* line 23
PrintReady(i) ==
    /\ pc[i] = "ready"
    /\ out' = [out EXCEPT ![i] = Append(@, "Server ready! Press Ctrl+C to stop")]
    /\ Goto(i, "bind")
    /\ UNCHANGED <<fs, hasDist, cwd, portOwner, backlog, cur, conn>>

Bind_ReusePort(i) ==
    /\ pc[i] = "bind"
    /\ portOwner' = i
    /\ Goto(i, "serve_forever")
    /\ UNCHANGED <<fs, hasDist, cwd, out, backlog, cur, conn>>

\* line 25: TCPServer(("", PORT), ...): bind and listen.  allow_reuse_address
\* is off, so the bind fails while another socket listens on the port.
Bind(i) ==
    /\ pc[i] = "bind"
    /\ IF portOwner = 0
       THEN /\ portOwner' = i
            /\ Goto(i, "serve_forever")
       ELSE /\ Die(i, "OSError", 1)
            /\ UNCHANGED portOwner
    /\ UNCHANGED <<fs, hasDist, cwd, out, backlog, cur, conn>>

\* line 26: httpd.serve_forever() enters its select loop
ServeForever(i) ==
    /\ pc[i] = "serve_forever"
    /\ Goto(i, "serving")
    /\ UNCHANGED <<fs, hasDist, cwd, out, portOwner, backlog, cur, conn>>

Accept_Threaded(i) ==
    /\ pc[i] = "serving"
    /\ backlog # <<>>
    /\ cur' = [cur EXCEPT ![i] = Head(backlog)]
    /\ backlog' = Tail(backlog)
    /\ conn' = [conn EXCEPT ![Head(backlog)].st = "accepted"]
    /\ UNCHANGED <<fs, hasDist, pc, cwd, out, exitStatus, exitAt, raised, portOwner>>

\* serve_forever's loop, idle: select reports the listener readable and
\* get_request accepts the oldest pending connection.
Accept(i) ==
    /\ pc[i] = "serving"
    /\ cur[i] = 0
    /\ backlog # <<>>
    /\ cur' = [cur EXCEPT ![i] = Head(backlog)]
    /\ backlog' = Tail(backlog)
    /\ conn' = [conn EXCEPT ![Head(backlog)].st = "accepted"]
    /\ UNCHANGED <<fs, hasDist, pc, cwd, out, exitStatus, exitAt, raised, portOwner>>

Caught_Nothing(exception) == exception = ""

\* _handle_request_noblock catches Exception around process_request.
Caught(exception) == exception \in {"", "OSError"}

\* The handler object h is what the handler left after the request on
\* connection c: handle() returns when close_connection is set or an
\* exception ends it, and otherwise waits for the next request.
Answer(c, req, h) ==
    conn' = [conn EXCEPT ![c] =
               [st |-> IF h.close_connection \/ h.exception # ""
                       THEN "answered" ELSE "accepted",
                sent |-> h.close_connection \/ h.exception # "",
                req |-> req, wfile |-> h.wfile, exception |-> h.exception]]

\* finish_request: the handler reads the request req (blocking until the client
\* has sent it) and answers it.
Handle(i, req) ==
    /\ pc[i] = "serving"
    /\ cur[i] # 0
    /\ conn[cur[i]].st = "accepted"
    /\ conn[cur[i]].sent
    /\ \E ioerror \in BOOLEAN :
          Answer(cur[i], req, handle_one_request(req, fs, ioerror))
    /\ UNCHANGED <<fs, hasDist, pc, cwd, out, exitStatus, exitAt, raised,
                   portOwner, backlog, cur>>

\* shutdown_request closes the connection, after handle_error has logged the
\* handler's exception if there was one; an exception that is no Exception
\* ends the process.
ShutdownRequest(i) ==
    /\ pc[i] = "serving"
    /\ cur[i] # 0
    /\ conn[cur[i]].st = "answered"
    /\ conn' = [conn EXCEPT ![cur[i]] = NoConn]
    /\ cur' = [cur EXCEPT ![i] = 0]
    /\ IF Caught(conn[cur[i]].exception)
       THEN /\ Goto(i, "serving")
            /\ UNCHANGED <<portOwner, backlog>>
       ELSE /\ Die(i, conn[cur[i]].exception, 1)
            /\ portOwner' = 0
            /\ backlog' = <<>>
    /\ UNCHANGED <<fs, hasDist, cwd, out>>

\* SIGINT: KeyboardInterrupt is raised in the main thread.  It is no Exception,
\* so nothing catches it: the with statement closes the listening socket and
\* the process ends with a traceback.
Interrupt(i) ==
    /\ pc[i] # "exited"
    /\ \E status \in SigintStatus : Die(i, "KeyboardInterrupt", status)
    /\ IF portOwner = i
       THEN /\ portOwner' = 0
            /\ backlog' = <<>>
            /\ cur' = [cur EXCEPT ![i] = 0]
            /\ conn' = [c \in Conns |-> NoConn]
       ELSE UNCHANGED <<portOwner, backlog, cur, conn>>
    /\ UNCHANGED <<fs, hasDist, cwd, out>>

\* A client connects to the port: the kernel completes the handshake and
\* queues the connection on the listening socket.
Connect(c) ==
    /\ portOwner # 0
    /\ conn[c].st = "closed"
    /\ \A d \in Conns : d < c => conn[d].st # "closed"
    /\ conn' = [conn EXCEPT ![c].st = "queued"]
    /\ backlog' = Append(backlog, c)
    /\ UNCHANGED <<fs, hasDist, pc, cwd, out, exitStatus, exitAt, raised, portOwner, cur>>

\* The client sends its request, or closes its end without sending one.
Send(c) ==
    /\ conn[c].st \in {"queued", "accepted"}
    /\ ~conn[c].sent
    /\ conn' = [conn EXCEPT ![c].sent = TRUE]
    /\ UNCHANGED <<fs, hasDist, pc, cwd, out, exitStatus, exitAt, raised,
                   portOwner, backlog, cur>>

Next ==
    \/ \E i \in Inst : Chdir(i)
    \/ \E i \in Inst : PrintBanner(i)
    \/ \E i \in Inst : PrintListing(i)
    \/ \E i \in Inst : PrintReady(i)
    \/ \E i \in Inst : Bind(i)
    \/ \E i \in Inst : ServeForever(i)
    \/ \E i \in Inst : Accept(i)
    \/ \E i \in Inst, req \in Requests : Handle(i, req)
    \/ \E i \in Inst : ShutdownRequest(i)
    \/ \E i \in Inst : Interrupt(i)
    \/ \E c \in Conns : Connect(c)
    \/ \E c \in Conns : Send(c)

Spec == Init /\ [][Next]_vars

---------------------------------------------------------------------------
(* Reading a response off the wire *)

\* The items of w before the blank line that ends the headers.
InHeaderBlock(w, j) == \A m \in 1 .. j : w[m].t # "blank"

HasStatusLine(w) == w # <<>> /\ w[1].t = "status"

\* The status code of the response, 0 if it has no status line.
Status(w) == IF HasStatusLine(w) THEN w[1].n ELSE 0

HasHeader(w, k, v) ==
    \E j \in 1 .. Len(w) :
        w[j].t = "header" /\ w[j].k = k /\ w[j].v = v /\ InHeaderBlock(w, j)

HasCors(w) == HasHeader(w, "Access-Control-Allow-Origin", "*")

\* The values of the Content-Length headers.
ContentLength(w) ==
    {w[j].n : j \in {m \in 1 .. Len(w) : w[m].t = "header" /\ w[m].k = "Content-Length"}}

\* The body items of the response.
Bodies(w) == SelectSeq(w, LAMBDA x : x.t = "body")

\* The response is exactly headers followed by the bytes data.
BodyIs(w, data) ==
    IF data = <<>> THEN Bodies(w) = <<>>
    ELSE Len(Bodies(w)) = 1 /\ Bodies(w)[1].data = data

\* The response is nothing but send_error's page for code, with no status
\* line and no header.
BarePage(w, code) == w = <<BodyBytes("error", ErrorPage(code), {})>>

Answered(c) == conn[c].st = "answered"

\* Shapes of request
IsLine(req, n) == req.kind = "line" /\ Len(req.words) = n

\* The request line ends with a version word the server accepts: HTTP/1.x.
Http1(req) ==
    /\ req.kind = "line"
    /\ Len(req.words) >= 3
    /\ req.words[Len(req.words)] \in {"HTTP/1.0", "HTTP/1.1"}

\* A well-formed HTTP/1.x request "<method> <target> <version>".
WellFormed(req, method) == IsLine(req, 3) /\ Http1(req) /\ req.words[1] = method

Target(req) == TranslatePath(req.words[2])

---------------------------------------------------------------------------
(* C1: the CORS header *)

AnsweredWithHeaders(req) == req.kind = "toolong" \/ Http1(req)

---------------------------------------------------------------------------
(* C2: a regular file is served as it is *)

\* A well-formed HTTP/1.x GET for the path of a regular file of the tree
\* that can be opened.
GetOfFile(req) ==
    /\ WellFormed(req, "GET")
    /\ ~Target(req).slash
    /\ IsFile(fs, Target(req).segs)
    /\ fs[Target(req).segs].readable

ServedWhole(w, file) ==
    /\ Status(w) = 200
    /\ BodyIs(w, file.content)
    /\ ContentLength(w) = {Len(file.content)}

\* C2 as stated: a GET for a regular file returns 200, the file's bytes and
\* their count as Content-Length, whatever other headers the request carries.
C2_FileAlways200 ==
    \A c \in Conns :
        Answered(c) /\ GetOfFile(conn[c].req) /\ conn[c].exception = ""
            => ServedWhole(conn[c].wfile, fs[Target(conn[c].req).segs])

\* The request carries a well-formed If-Modified-Since that is not earlier
\* than the file's modification time, and no If-None-Match.
NotModifiedSince(req, file) ==
    req.ims.present /\ req.ims.valid /\ ~req.inm /\ file.mtime <= req.ims.time

\* C2, amended: a GET for a regular file that can be opened and read returns
\* 200, the file's bytes and their count as Content-Length, unless the request
\* carries a well-formed If-Modified-Since not earlier than the file's
\* modification time and no If-None-Match: then it returns 304 and no body.
C2_FileServedUnlessNotModified ==
    \A c \in Conns :
        Answered(c) /\ GetOfFile(conn[c].req) /\ conn[c].exception = "" =>
            LET w == conn[c].wfile
                file == fs[Target(conn[c].req).segs]
            IN IF NotModifiedSince(conn[c].req, file)
               THEN Status(w) = 304 /\ Bodies(w) = <<>>
               ELSE ServedWhole(w, file)

\* C2, witness: A file served whole to a request that carries a conditional header.
C2_Witness ==
    \E c \in Conns :
        /\ Answered(c)
        /\ GetOfFile(conn[c].req)
        /\ conn[c].req.ims.present
        /\ ServedWhole(conn[c].wfile, fs[Target(conn[c].req).segs])

---------------------------------------------------------------------------
(* C3: the interrupt *)

InterruptedWhileServing(i) ==
    pc[i] = "exited" /\ raised[i] = "KeyboardInterrupt" /\ exitAt[i] = "serving"

\* C3 as stated: interrupted in the serving loop, the process shuts down the
\* listener and exits with status 0.
C3_InterruptExitsZero ==
    \A i \in Inst :
        InterruptedWhileServing(i) => exitStatus[i] = 0 /\ portOwner # i

\* C3, amended: interrupted in the serving loop, the process shuts down the
\* listener and ends with a non-zero status (the KeyboardInterrupt is not
\* caught), and no connection is left in its handler.
C3_InterruptExitsNonZero ==
    \A i \in Inst :
        InterruptedWhileServing(i) =>
            exitStatus[i] > 0 /\ portOwner # i /\ cur[i] = 0

\* C3, witness: A server interrupted in its loop and killed by the signal.
C3_Witness ==
    \E i \in Inst : InterruptedWhileServing(i) /\ exitStatus[i] = 130 /\ portOwner = 0

---------------------------------------------------------------------------
(* C4: connections and one another *)

\* A step of the server's loop on any connection.
ServerStep ==
    \E i \in Inst :
        \/ Accept(i)
        \/ \E req \in Requests : Handle(i, req)
        \/ ShutdownRequest(i)

\* The client of c has sent its whole request and waits for the server.
Waiting(c) == conn[c].st \in {"queued", "accepted"} /\ conn[c].sent

\* The client of c has connected and not sent its request.
Stalled(c) == conn[c].st \in {"queued", "accepted"} /\ ~conn[c].sent

Serving == portOwner # 0 /\ pc[portOwner] = "serving"

\* C4 as stated: a stalled connection does not prevent another connection from
\* having its request read and its response written: while the server is in
\* its loop and some client waits with its request sent, the server can take
\* a step without any other client acting.
C4_StalledDoesNotBlock ==
    (Serving /\ \E c \in Conns : Waiting(c)) => ENABLED ServerStep

InHandler(c) == conn[c].st \in {"accepted", "answered"}

\* C4, amended: connections are processed one at a time, in the order they
\* arrived: at most one connection is in the handler, every other open
\* connection waits in the listen backlog, and the next one is accepted only
\* when the handler has finished; a connection that stalls in the handler
\* keeps every later connection waiting until its client sends or closes.
C4_OneAtATime ==
    /\ \A c \in Conns : InHandler(c) => Serving /\ cur[portOwner] = c
    /\ \A c \in Conns :
          conn[c].st = "queued" <=> \E j \in 1 .. Len(backlog) : backlog[j] = c
    /\ (\E c \in Conns : InHandler(c) /\ Stalled(c)) => ~ENABLED ServerStep

\* C4, witness: A client that has sent its request waits behind a stalled connection.
C4_Witness ==
    \E c, d \in Conns :
        /\ conn[d].st = "accepted" /\ Stalled(d)
        /\ conn[c].st = "queued" /\ Waiting(c)
        /\ Serving

---------------------------------------------------------------------------
(* C5: a file that cannot be read *)

\* A well-formed HTTP/1.x GET for the path of a regular file of the tree
\* that open() refuses.
GetOfUnreadable(req) ==
    /\ WellFormed(req, "GET")
    /\ ~Target(req).slash
    /\ IsFile(fs, Target(req).segs)
    /\ ~fs[Target(req).segs].readable

\* No process leaves the serving loop except by an interrupt.
OnlyInterruptEndsServing ==
    \A i \in Inst :
        pc[i] = "exited" /\ exitAt[i] = "serving" => raised[i] = "KeyboardInterrupt"

---------------------------------------------------------------------------
(* C6: directories *)

\* A well-formed HTTP/1.x GET for a path that is a directory of the tree.
GetOfDir(req) == WellFormed(req, "GET") /\ IsDir(fs, Target(req).segs)

\* A 200 response whose body is the listing of directory segs.
IsListing(w, segs) ==
    /\ Status(w) = 200
    /\ Len(Bodies(w)) = 1
    /\ Bodies(w)[1].k = "listing"
    /\ Bodies(w)[1].names = ListDir(fs, segs)

HasIndex(segs) ==
    IsFile(fs, Append(segs, "index.html")) \/ IsFile(fs, Append(segs, "index.htm"))

---------------------------------------------------------------------------
(* C7: no dist directory *)

\* Instance i has reached the statement that binds the listener, or gone
\* past it.
AtOrPastBind(i) ==
    \/ pc[i] \in {"bind", "serve_forever", "serving"}
    \/ exitAt[i] \in {"bind", "serve_forever", "serving"}

\* C7: if dist does not exist at launch the process exits with a non-zero
\* status and never binds a listener; in every run the bind step is reached
\* only after the change of directory succeeded.
C7_NoDistNoListener ==
    \A i \in Inst :
        /\ ~hasDist[i] =>
              /\ portOwner # i
              /\ ~AtOrPastBind(i)
              /\ pc[i] \in {"chdir", "exited"}
              /\ (pc[i] = "exited" => exitStatus[i] > 0)
        /\ (AtOrPastBind(i) \/ portOwner = i) => cwd[i] = "dist"

\* C7, witness: A launch without dist ended by the failed chdir while the port is free.
C7_Witness ==
    \E i \in Inst :
        /\ ~hasDist[i]
        /\ pc[i] = "exited"
        /\ exitAt[i] = "chdir"
        /\ raised[i] = "FileNotFoundError"
        /\ exitStatus[i] = 1
        /\ portOwner = 0

---------------------------------------------------------------------------
(* C8: two instances, one port *)

\* Instance i takes its bind step while instance j holds the port.
BindsAgainst(i, j) ==
    /\ pc[i] = "bind"
    /\ portOwner = j
    /\ j # i
    /\ pc'[i] # "bind"
    /\ raised'[i] # "KeyboardInterrupt"

\* C8: when two instances are started on the same port the second fails to
\* bind and exits non-zero, and the first keeps serving unaffected: it stays
\* where it is in its loop, still owns the listener, and its connections are
\* untouched.
C8_SecondBindFails ==
    [][\A i, j \in Inst :
          BindsAgainst(i, j) =>
              /\ pc'[i] = "exited"
              /\ raised'[i] = "OSError"
              /\ exitStatus'[i] > 0
              /\ portOwner' = j
              /\ pc'[j] = pc[j]
              /\ cur' = cur
              /\ backlog' = backlog
              /\ conn' = conn]_vars

\* C8, witness: The second instance has failed to bind and the first is serving a
\* connection.
C8_Witness ==
    \E i, j \in Inst :
        /\ exitAt[i] = "bind"
        /\ raised[i] = "OSError"
        /\ exitStatus[i] = 1
        /\ portOwner = j
        /\ pc[j] = "serving"
        /\ cur[j] # 0
        /\ Answered(cur[j])

---------------------------------------------------------------------------
(* C9: failures of one request stay with that request *)

\* The request line is not "<method> <target> [<version>]" with a version of
\* the form HTTP/<int>.<int>, or it is too long.
Malformed(req) ==
    \/ req.kind = "toolong"
    \/ /\ req.kind = "line"
       /\ \/ Len(req.words) \notin {2, 3}
          \/ Len(req.words) = 3 /\ ~ValidVersion(req.words[3])
          \/ Len(req.words) = 2 /\ req.words[1] # "GET"

\* A well-formed HTTP/1.x GET or HEAD whose path is no file or directory of
\* the tree, or a file that cannot be opened.
MissingOrUnreadable(req) ==
    /\ WellFormed(req, "GET") \/ WellFormed(req, "HEAD")
    /\ ~Target(req).slash
    /\ ~IsDir(fs, Target(req).segs)
    /\ ~CanOpen(fs, Target(req).segs)

---------------------------------------------------------------------------
(* C10: what is printed before the bind *)

HeadingLines ==
    <<"Test server starting on http://localhost:8080",
      "Serving files from: dist",
      "Available files:">>

ReadyLine == "Server ready! Press Ctrl+C to stop"

\* name begins with the six characters b c r d f -
BeginsWithBcrdfDash(name) ==
    /\ Len(Chars(name)) >= 6
    /\ Chars(name)[1] = "b" /\ Chars(name)[2] = "c" /\ Chars(name)[3] = "r"
    /\ Chars(name)[4] = "d" /\ Chars(name)[5] = "f" /\ Chars(name)[6] = "-"

\* out[i] is the whole start-up output: the three heading lines, one line for
\* each entry of dist whose name begins with bcrdf- (each once, no other),
\* and the ready line.
OutputComplete(i) ==
    LET wanted == {name \in ListDir(fs, <<>>) : BeginsWithBcrdfDash(name)}
        n == Cardinality(wanted)
    IN /\ Len(out[i]) = 3 + n + 1
       /\ SubSeq(out[i], 1, 3) = HeadingLines
       /\ {out[i][k] : k \in 4 .. 3 + n} = wanted
       /\ out[i][Len(out[i])] = ReadyLine

\* C10: the whole start-up output, the ready line included, is printed before
\* the bind is attempted; a run that ends in a bind failure has printed the
\* ready line, so the ready line does not imply that a listener exists.
C10_OutputBeforeBind ==
    \A i \in Inst :
        AtOrPastBind(i) \/ portOwner = i => OutputComplete(i)

\* C10, witness: A run that printed a listing and the ready line and then failed to bind.
C10_Witness ==
    \E i \in Inst :
        /\ exitAt[i] = "bind"
        /\ raised[i] = "OSError"
        /\ portOwner # i
        /\ Len(out[i]) > 4
        /\ out[i][Len(out[i])] = ReadyLine

====
